---- MODULE Spec2Model ----
(***************************************************************************)
(* Model of the ZMK axis-constrain input processor                         *)
(* (src/src/input_processors/input_processor_axis_constrain.c).            *)
(*                                                                         *)
(* The processor receives relative-motion events, accumulates per-axis     *)
(* movement, and zeroes the value of events that are not on the dominant   *)
(* (or, in sticky mode, locked) axis.  In sticky mode a delayable work     *)
(* item (release_work) is rescheduled on every qualifying event; when it   *)
(* runs it resets the state.                                               *)
(*                                                                         *)
(* int32_t is modelled as a two's complement integer of IntBits bits, so   *)
(* that INT32_MIN, INT32_MAX and MAX_ACCUM keep the relations they have in *)
(* the source (MAX_ACCUM = INT32_MAX / 2, INT32_MIN = -INT32_MAX - 1).     *)
(***************************************************************************)
EXTENDS Integers, FiniteSets, Sequences, TLC

(***************************************************************************)
(* Bounds of the model.                                                    *)
(***************************************************************************)
\* width in bits of the modelled int32_t
IntBits == 4
\* thresholds 1..MaxThreshold are explored
MaxThreshold == 2
\* release_after_ms values 1..MaxReleaseMs are explored
MaxReleaseMs == 2
\* besides the two extreme values, deltas -MaxStep..MaxStep are explored
MaxStep == 1

(***************************************************************************)
(* Integer types and constants.                                            *)
(***************************************************************************)
INT32_MAX == 2^(IntBits - 1) - 1
INT32_MIN == -INT32_MAX - 1

\* #define MAX_ACCUM (INT32_MAX / 2)
MAX_ACCUM == INT32_MAX \div 2

\* the cast (int32_t)result of an int64_t value
ToInt32(v) == ((v - INT32_MIN) % (2^IntBits)) + INT32_MIN

\* enum axis_state
AXIS_NONE == "AXIS_NONE"
AXIS_X == "AXIS_X"
AXIS_Y == "AXIS_Y"
axis_state == {AXIS_NONE, AXIS_X, AXIS_Y}

\* event types and codes of the input subsystem used by the handler
INPUT_EV_KEY == "INPUT_EV_KEY"
INPUT_EV_REL == "INPUT_EV_REL"
INPUT_REL_X == "INPUT_REL_X"
INPUT_REL_Y == "INPUT_REL_Y"
INPUT_REL_WHEEL == "INPUT_REL_WHEEL"

\* the deltas an event can carry in this model
Deltas == {INT32_MIN, INT32_MAX} \cup ((-MaxStep)..MaxStep)

\* struct input_event, restricted to the fields the handler reads or writes:
\* relative motion on X and Y ...
QualifyingEvents == [type : {INPUT_EV_REL},
                     code : {INPUT_REL_X, INPUT_REL_Y},
                     value : Deltas]

\* ... an event of another type (whose code equals that of an axis), and
\* relative motion on another axis
IrrelevantEvents == [type : {INPUT_EV_KEY}, code : {INPUT_REL_X},
                     value : {-1, INT32_MAX}]
                    \cup
                    [type : {INPUT_EV_REL}, code : {INPUT_REL_WHEEL},
                     value : {-1, INT32_MAX}]

Events == QualifyingEvents \cup IrrelevantEvents

\* no event has been handed to the handler yet
NoEvent == [type |-> "NONE", code |-> "NONE", value |-> 0]

\* struct axis_constrain_config, as the BUILD_ASSERTs of AC_INST admit it
Configs == [threshold : 1..MaxThreshold, sticky : {TRUE},
            release_after_ms : 1..MaxReleaseMs]
           \cup
           [threshold : 1..MaxThreshold, sticky : {FALSE},
            release_after_ms : {MaxReleaseMs}]

VARIABLES
  dev,           \* the device instance: "unbuilt", "build_error" or "ready"
  ret,           \* the status the driver returned last: <<status>>, <<>> before any call
  config,        \* struct axis_constrain_config (immutable)
  data,          \* struct axis_constrain_data: locked_axis and the accumulators
  release_work,  \* struct k_work_delayable release_work
  event,         \* the event last handed to the handler, as the handler left it
  value_in,      \* the value that event carried when it was handed over
  since_last,    \* ms since the last qualifying event (saturates above release_after_ms)
  lock,          \* struct k_spinlock lock: its holder, or "free"
  pc,            \* where each execution context stands (stepwise handler only)
  cur,           \* the event each handler invocation works on (stepwise handler only)
  shadow,        \* data as whole operations, taken in lock order, would leave it
  expect         \* per invocation, the event as its whole operation would leave it

\* the variables of the stepwise handler
conc == <<lock, pc, cur, shadow, expect>>

vars == <<dev, ret, config, data, release_work, event, value_in, since_last,
          lock, pc, cur, shadow, expect>>

\* execution contexts: two callers of the event handler, and the work queue
\* thread that runs release_work_handler
Handlers == {"h1", "h2"}
WorkQueue == "wq"
Contexts == Handlers \cup {WorkQueue}

(***************************************************************************)
(* Pure helpers of the source.                                             *)
(***************************************************************************)
\* abs() of <stdlib.h>; only applied to values other than INT32_MIN
abs(value) == IF value < 0 THEN -value ELSE value

safe_abs(value) == IF value = INT32_MIN THEN INT32_MAX ELSE abs(value)

\* faulty variant of safe_accum_add: the sum is formed in int32_t and wraps
safe_accum_add_int32(current, delta) ==
  LET result == ToInt32(current + delta)
  IN  IF result > MAX_ACCUM THEN MAX_ACCUM
      ELSE IF result < -MAX_ACCUM THEN -MAX_ACCUM
      ELSE result

safe_accum_add(current, delta) ==
  LET result == current + delta
  IN  IF result > MAX_ACCUM THEN MAX_ACCUM
      ELSE IF result < -MAX_ACCUM THEN -MAX_ACCUM
      ELSE ToInt32(result)

\* faulty variant of reset_state_locked: the accumulators are not cleared
reset_state_locked_keep_accum(d) ==
  [d EXCEPT !.locked_axis = AXIS_NONE]

reset_state_locked(d) ==
  [d EXCEPT !.locked_axis = AXIS_NONE,
            !.accum_x = 0, !.accum_y = 0,
            !.abs_accum_x = 0, !.abs_accum_y = 0]

update_accum(d, is_x, delta) ==
  IF is_x
  THEN LET a == safe_accum_add(d.accum_x, delta)
       IN  [d EXCEPT !.accum_x = a, !.abs_accum_x = safe_abs(a)]
  ELSE LET a == safe_accum_add(d.accum_y, delta)
       IN  [d EXCEPT !.accum_y = a, !.abs_accum_y = safe_abs(a)]

\* faulty variant of determine_dominant_axis: an axis dominates only above the
\* threshold
determine_dominant_axis_above(d, threshold) ==
  IF d.abs_accum_x > threshold /\ d.abs_accum_x > d.abs_accum_y THEN AXIS_X
  ELSE IF d.abs_accum_y > threshold /\ d.abs_accum_y > d.abs_accum_x THEN AXIS_Y
  ELSE IF d.abs_accum_x > threshold /\ d.abs_accum_x = d.abs_accum_y THEN AXIS_X
  ELSE AXIS_NONE

\* faulty variant of determine_dominant_axis: no tie-break
determine_dominant_axis_no_tie(d, threshold) ==
  IF d.abs_accum_x >= threshold /\ d.abs_accum_x > d.abs_accum_y THEN AXIS_X
  ELSE IF d.abs_accum_y >= threshold /\ d.abs_accum_y > d.abs_accum_x THEN AXIS_Y
  ELSE AXIS_NONE

determine_dominant_axis(d, threshold) ==
  IF d.abs_accum_x >= threshold /\ d.abs_accum_x > d.abs_accum_y THEN AXIS_X
  ELSE IF d.abs_accum_y >= threshold /\ d.abs_accum_y > d.abs_accum_x THEN AXIS_Y
  ELSE IF d.abs_accum_x >= threshold /\ d.abs_accum_x = d.abs_accum_y THEN AXIS_X
  ELSE AXIS_NONE

(***************************************************************************)
(* The two suppression policies.  Each takes the data after update_accum   *)
(* and the event, and yields the data and the event it leaves behind.      *)
(***************************************************************************)
\* faulty variant of handle_sticky_mode: the arbiter is consulted on every
\* event, locked or not
handle_sticky_mode_rearbitrate(d, cfg, ev, is_x) ==
  LET d1 == [d EXCEPT !.locked_axis = determine_dominant_axis(d, cfg.threshold)]
      is_locked_axis == (d1.locked_axis = AXIS_X /\ is_x)
                        \/ (d1.locked_axis = AXIS_Y /\ ~is_x)
  IN  IF d1.locked_axis = AXIS_NONE
      THEN [data |-> d1, event |-> [ev EXCEPT !.value = 0]]
      ELSE IF ~is_locked_axis
      THEN [data |-> d1, event |-> [ev EXCEPT !.value = 0]]
      ELSE [data |-> d1, event |-> ev]

\* faulty variant of handle_sticky_mode: nothing is suppressed while unlocked
handle_sticky_mode_pass_unlocked(d, cfg, ev, is_x) ==
  LET d1 == IF d.locked_axis = AXIS_NONE
            THEN [d EXCEPT !.locked_axis = determine_dominant_axis(d, cfg.threshold)]
            ELSE d
      is_locked_axis == (d1.locked_axis = AXIS_X /\ is_x)
                        \/ (d1.locked_axis = AXIS_Y /\ ~is_x)
  IN  IF d1.locked_axis = AXIS_NONE
      THEN [data |-> d1, event |-> ev]
      ELSE IF ~is_locked_axis
      THEN [data |-> d1, event |-> [ev EXCEPT !.value = 0]]
      ELSE [data |-> d1, event |-> ev]

\* faulty variant of handle_sticky_mode: the lock is dropped when the locked
\* axis's accumulator is found below the threshold
handle_sticky_mode_unlock_below(d, cfg, ev, is_x) ==
  LET d0 == IF \/ d.locked_axis = AXIS_X /\ d.abs_accum_x < cfg.threshold
               \/ d.locked_axis = AXIS_Y /\ d.abs_accum_y < cfg.threshold
            THEN [d EXCEPT !.locked_axis = AXIS_NONE]
            ELSE d
      d1 == IF d0.locked_axis = AXIS_NONE
            THEN [d0 EXCEPT !.locked_axis = determine_dominant_axis(d0, cfg.threshold)]
            ELSE d0
      is_locked_axis == (d1.locked_axis = AXIS_X /\ is_x)
                        \/ (d1.locked_axis = AXIS_Y /\ ~is_x)
  IN  IF d1.locked_axis = AXIS_NONE
      THEN [data |-> d1, event |-> [ev EXCEPT !.value = 0]]
      ELSE IF ~is_locked_axis
      THEN [data |-> d1, event |-> [ev EXCEPT !.value = 0]]
      ELSE [data |-> d1, event |-> ev]

handle_sticky_mode(d, cfg, ev, is_x) ==
  LET d1 == IF d.locked_axis = AXIS_NONE
            THEN [d EXCEPT !.locked_axis = determine_dominant_axis(d, cfg.threshold)]
            ELSE d
      is_locked_axis == (d1.locked_axis = AXIS_X /\ is_x)
                        \/ (d1.locked_axis = AXIS_Y /\ ~is_x)
  IN  IF d1.locked_axis = AXIS_NONE
      THEN [data |-> d1, event |-> [ev EXCEPT !.value = 0]]
      ELSE IF ~is_locked_axis
      THEN [data |-> d1, event |-> [ev EXCEPT !.value = 0]]
      ELSE [data |-> d1, event |-> ev]

\* faulty variant of handle_non_sticky_mode: the dominant axis is not clamped
handle_non_sticky_mode_no_clamp(d, cfg, ev, is_x) ==
  LET dominant == determine_dominant_axis(d, cfg.threshold)
      is_dominant == (dominant = AXIS_X /\ is_x) \/ (dominant = AXIS_Y /\ ~is_x)
  IN  IF dominant = AXIS_NONE
      THEN [data |-> d, event |-> [ev EXCEPT !.value = 0]]
      ELSE IF ~is_dominant
      THEN [data |-> d, event |-> [ev EXCEPT !.value = 0]]
      ELSE IF dominant = AXIS_X
      THEN [data |-> [d EXCEPT !.accum_y = 0, !.abs_accum_y = 0], event |-> ev]
      ELSE [data |-> [d EXCEPT !.accum_x = 0, !.abs_accum_x = 0], event |-> ev]

\* faulty variant of handle_non_sticky_mode: an accepted event does not clear
\* the other axis
handle_non_sticky_mode_keep_other(d, cfg, ev, is_x) ==
  LET dominant == determine_dominant_axis(d, cfg.threshold)
      is_dominant == (dominant = AXIS_X /\ is_x) \/ (dominant = AXIS_Y /\ ~is_x)
  IN  IF dominant = AXIS_NONE
      THEN [data |-> d, event |-> [ev EXCEPT !.value = 0]]
      ELSE IF ~is_dominant
      THEN [data |-> d, event |-> [ev EXCEPT !.value = 0]]
      ELSE IF dominant = AXIS_X
      THEN [data |-> IF d.abs_accum_x > cfg.threshold
                     THEN [d EXCEPT !.accum_x = IF d.accum_x > 0
                                                THEN cfg.threshold
                                                ELSE -cfg.threshold,
                                    !.abs_accum_x = cfg.threshold]
                     ELSE d,
            event |-> ev]
      ELSE [data |-> IF d.abs_accum_y > cfg.threshold
                     THEN [d EXCEPT !.accum_y = IF d.accum_y > 0
                                                THEN cfg.threshold
                                                ELSE -cfg.threshold,
                                    !.abs_accum_y = cfg.threshold]
                     ELSE d,
            event |-> ev]

\* faulty variant of handle_non_sticky_mode: an event suppressed in favour of
\* the dominant axis has its own axis cleared
handle_non_sticky_mode_decay_on_suppress(d, cfg, ev, is_x) ==
  LET dominant == determine_dominant_axis(d, cfg.threshold)
      is_dominant == (dominant = AXIS_X /\ is_x) \/ (dominant = AXIS_Y /\ ~is_x)
  IN  IF dominant = AXIS_NONE
      THEN [data |-> d, event |-> [ev EXCEPT !.value = 0]]
      ELSE IF ~is_dominant
      THEN [data |-> IF is_x
                     THEN [d EXCEPT !.accum_x = 0, !.abs_accum_x = 0]
                     ELSE [d EXCEPT !.accum_y = 0, !.abs_accum_y = 0],
            event |-> [ev EXCEPT !.value = 0]]
      ELSE IF dominant = AXIS_X
      THEN LET d1 == [d EXCEPT !.accum_y = 0, !.abs_accum_y = 0]
           IN  [data |-> IF d1.abs_accum_x > cfg.threshold
                         THEN [d1 EXCEPT !.accum_x = IF d1.accum_x > 0
                                                     THEN cfg.threshold
                                                     ELSE -cfg.threshold,
                                         !.abs_accum_x = cfg.threshold]
                         ELSE d1,
                event |-> ev]
      ELSE LET d1 == [d EXCEPT !.accum_x = 0, !.abs_accum_x = 0]
           IN  [data |-> IF d1.abs_accum_y > cfg.threshold
                         THEN [d1 EXCEPT !.accum_y = IF d1.accum_y > 0
                                                     THEN cfg.threshold
                                                     ELSE -cfg.threshold,
                                         !.abs_accum_y = cfg.threshold]
                         ELSE d1,
                event |-> ev]

\* faulty variant of handle_non_sticky_mode: an event passes while no axis is
\* dominant
handle_non_sticky_mode_pass_none(d, cfg, ev, is_x) ==
  LET dominant == determine_dominant_axis(d, cfg.threshold)
      is_dominant == (dominant = AXIS_X /\ is_x) \/ (dominant = AXIS_Y /\ ~is_x)
  IN  IF dominant = AXIS_NONE
      THEN [data |-> d, event |-> ev]
      ELSE IF ~is_dominant
      THEN [data |-> d, event |-> [ev EXCEPT !.value = 0]]
      ELSE IF dominant = AXIS_X
      THEN LET d1 == [d EXCEPT !.accum_y = 0, !.abs_accum_y = 0]
           IN  [data |-> IF d1.abs_accum_x > cfg.threshold
                         THEN [d1 EXCEPT !.accum_x = IF d1.accum_x > 0
                                                     THEN cfg.threshold
                                                     ELSE -cfg.threshold,
                                         !.abs_accum_x = cfg.threshold]
                         ELSE d1,
                event |-> ev]
      ELSE LET d1 == [d EXCEPT !.accum_x = 0, !.abs_accum_x = 0]
           IN  [data |-> IF d1.abs_accum_y > cfg.threshold
                         THEN [d1 EXCEPT !.accum_y = IF d1.accum_y > 0
                                                     THEN cfg.threshold
                                                     ELSE -cfg.threshold,
                                         !.abs_accum_y = cfg.threshold]
                         ELSE d1,
                event |-> ev]

\* faulty variant of handle_non_sticky_mode: the clamp leaves the absolute
\* accumulator as it was
handle_non_sticky_mode_stale_abs(d, cfg, ev, is_x) ==
  LET dominant == determine_dominant_axis(d, cfg.threshold)
      is_dominant == (dominant = AXIS_X /\ is_x) \/ (dominant = AXIS_Y /\ ~is_x)
  IN  IF dominant = AXIS_NONE
      THEN [data |-> d, event |-> [ev EXCEPT !.value = 0]]
      ELSE IF ~is_dominant
      THEN [data |-> d, event |-> [ev EXCEPT !.value = 0]]
      ELSE IF dominant = AXIS_X
      THEN LET d1 == [d EXCEPT !.accum_y = 0, !.abs_accum_y = 0]
           IN  [data |-> IF d1.abs_accum_x > cfg.threshold
                         THEN [d1 EXCEPT !.accum_x = IF d1.accum_x > 0
                                                     THEN cfg.threshold
                                                     ELSE -cfg.threshold]
                         ELSE d1,
                event |-> ev]
      ELSE LET d1 == [d EXCEPT !.accum_x = 0, !.abs_accum_x = 0]
           IN  [data |-> IF d1.abs_accum_y > cfg.threshold
                         THEN [d1 EXCEPT !.accum_y = IF d1.accum_y > 0
                                                     THEN cfg.threshold
                                                     ELSE -cfg.threshold]
                         ELSE d1,
                event |-> ev]

handle_non_sticky_mode(d, cfg, ev, is_x) ==
  LET dominant == determine_dominant_axis(d, cfg.threshold)
      is_dominant == (dominant = AXIS_X /\ is_x) \/ (dominant = AXIS_Y /\ ~is_x)
  IN  IF dominant = AXIS_NONE
      THEN [data |-> d, event |-> [ev EXCEPT !.value = 0]]
      ELSE IF ~is_dominant
      THEN [data |-> d, event |-> [ev EXCEPT !.value = 0]]
      ELSE IF dominant = AXIS_X
      THEN LET d1 == [d EXCEPT !.accum_y = 0, !.abs_accum_y = 0]
           IN  [data |-> IF d1.abs_accum_x > cfg.threshold
                         THEN [d1 EXCEPT !.accum_x = IF d1.accum_x > 0
                                                     THEN cfg.threshold
                                                     ELSE -cfg.threshold,
                                         !.abs_accum_x = cfg.threshold]
                         ELSE d1,
                event |-> ev]
      ELSE LET d1 == [d EXCEPT !.accum_x = 0, !.abs_accum_x = 0]
           IN  [data |-> IF d1.abs_accum_y > cfg.threshold
                         THEN [d1 EXCEPT !.accum_y = IF d1.accum_y > 0
                                                     THEN cfg.threshold
                                                     ELSE -cfg.threshold,
                                         !.abs_accum_y = cfg.threshold]
                         ELSE d1,
                event |-> ev]

(***************************************************************************)
(* The delayable work item.  delayed: a timeout is pending, with `left' ms *)
(* to go; queued: the timeout has expired and the work item waits in the   *)
(* work queue for its handler to be run.                                   *)
(***************************************************************************)
\* k_work_init_delayable(&data->release_work, release_work_handler)
k_work_init_delayable == [delayed |-> FALSE, left |-> 0, queued |-> FALSE]

\* faulty variant of k_work_reschedule: a pending timeout is left as it is
\* (the behaviour of k_work_schedule)
k_work_reschedule_keep_pending(w, delay) ==
  IF w.delayed THEN w
  ELSE IF delay = 0
  THEN [w EXCEPT !.delayed = FALSE, !.left = 0, !.queued = TRUE]
  ELSE [w EXCEPT !.delayed = TRUE, !.left = delay]

\* k_work_reschedule(&data->release_work, K_MSEC(delay)): any pending timeout
\* is replaced by a new one; an item already in the queue stays there
k_work_reschedule(w, delay) ==
  IF delay = 0
  THEN [w EXCEPT !.delayed = FALSE, !.left = 0, !.queued = TRUE]
  ELSE [w EXCEPT !.delayed = TRUE, !.left = delay]

\* the value since_last saturates at
Long == config.release_after_ms + 1

(***************************************************************************)
(* Initial state: axis_constrain_init.                                     *)
(***************************************************************************)
axis_constrain_init ==
  /\ data = reset_state_locked([locked_axis |-> AXIS_NONE,
                                accum_x |-> 0, accum_y |-> 0,
                                abs_accum_x |-> 0, abs_accum_y |-> 0])
  /\ release_work = k_work_init_delayable
  /\ ret = <<0>>

Init ==
  /\ config \in Configs
  /\ dev = "ready"
  /\ axis_constrain_init
  /\ event = NoEvent
  /\ value_in = 0
  /\ since_last = Long
  /\ lock = "free"
  /\ pc = [p \in Contexts |-> "idle"]
  /\ cur = [h \in Handlers |-> NoEvent]
  /\ shadow = data
  /\ expect = [h \in Handlers |-> NoEvent]

(***************************************************************************)
(* The event handler, as one step: the spin lock is held from update_accum *)
(* to the end of the policy.                                               *)
(***************************************************************************)
\* faulty variant of the locked region: the policy is applied before the delta
\* is accumulated
HandleLocked_policy_first(d, cfg, ev) ==
  LET is_x == (ev.code = INPUT_REL_X)
      r == IF cfg.sticky
           THEN handle_sticky_mode(d, cfg, ev, is_x)
           ELSE handle_non_sticky_mode(d, cfg, ev, is_x)
  IN  [data |-> update_accum(r.data, is_x, ev.value), event |-> r.event]

\* the result of the locked region of the handler for a qualifying event
HandleLocked(d, cfg, ev) ==
  LET is_x == (ev.code = INPUT_REL_X)
      d1 == update_accum(d, is_x, ev.value)
  IN  IF cfg.sticky
      THEN handle_sticky_mode(d1, cfg, ev, is_x)
      ELSE handle_non_sticky_mode(d1, cfg, ev, is_x)

\* faulty variant of the handler: the code of a relative event is not checked
axis_constrain_handle_event_no_code_check(ev) ==
  /\ value_in' = ev.value
  /\ ret' = <<0>>
  /\ IF ev.type # INPUT_EV_REL
     THEN /\ event' = ev
          /\ UNCHANGED <<dev, config, data, release_work, since_last, conc>>
     ELSE LET r == HandleLocked(data, config, ev)
          IN  /\ data' = r.data
              /\ event' = r.event
              /\ release_work' = IF config.sticky
                                 THEN k_work_reschedule(release_work,
                                                        config.release_after_ms)
                                 ELSE release_work
              /\ since_last' = 0
              /\ UNCHANGED <<dev, config, conc>>

\* faulty variant of the handler: the release is rescheduled only for events
\* that pass
axis_constrain_handle_event_arm_on_pass(ev) ==
  /\ value_in' = ev.value
  /\ ret' = <<0>>
  /\ IF ev.type # INPUT_EV_REL
     THEN /\ event' = ev
          /\ UNCHANGED <<dev, config, data, release_work, since_last, conc>>
     ELSE IF ev.code # INPUT_REL_X /\ ev.code # INPUT_REL_Y
     THEN /\ event' = ev
          /\ UNCHANGED <<dev, config, data, release_work, since_last, conc>>
     ELSE LET r == HandleLocked(data, config, ev)
          IN  /\ data' = r.data
              /\ event' = r.event
              /\ release_work' = IF config.sticky /\ r.event.value # 0
                                 THEN k_work_reschedule(release_work,
                                                        config.release_after_ms)
                                 ELSE release_work
              /\ since_last' = 0
              /\ UNCHANGED <<dev, config, conc>>

\* faulty variant of the handler: an event of another type is answered with an
\* error status
axis_constrain_handle_event_reject_irrelevant(ev) ==
  /\ value_in' = ev.value
  /\ ret' = IF ev.type # INPUT_EV_REL THEN <<-1>> ELSE <<0>>
  /\ IF ev.type # INPUT_EV_REL
     THEN /\ event' = ev
          /\ UNCHANGED <<dev, config, data, release_work, since_last, conc>>
     ELSE IF ev.code # INPUT_REL_X /\ ev.code # INPUT_REL_Y
     THEN /\ event' = ev
          /\ UNCHANGED <<dev, config, data, release_work, since_last, conc>>
     ELSE LET r == HandleLocked(data, config, ev)
          IN  /\ data' = r.data
              /\ event' = r.event
              /\ release_work' = IF config.sticky
                                 THEN k_work_reschedule(release_work,
                                                        config.release_after_ms)
                                 ELSE release_work
              /\ since_last' = 0
              /\ UNCHANGED <<dev, config, conc>>

\* faulty variant of the handler: the release is rescheduled in both modes
axis_constrain_handle_event_always_arm(ev) ==
  /\ value_in' = ev.value
  /\ ret' = <<0>>
  /\ IF ev.type # INPUT_EV_REL
     THEN /\ event' = ev
          /\ UNCHANGED <<dev, config, data, release_work, since_last, conc>>
     ELSE IF ev.code # INPUT_REL_X /\ ev.code # INPUT_REL_Y
     THEN /\ event' = ev
          /\ UNCHANGED <<dev, config, data, release_work, since_last, conc>>
     ELSE LET r == HandleLocked(data, config, ev)
          IN  /\ data' = r.data
              /\ event' = r.event
              /\ release_work' = k_work_reschedule(release_work,
                                                   config.release_after_ms)
              /\ since_last' = 0
              /\ UNCHANGED <<dev, config, conc>>

axis_constrain_handle_event(ev) ==
  /\ value_in' = ev.value
  /\ ret' = <<0>>
  /\ IF ev.type # INPUT_EV_REL
     THEN /\ event' = ev
          /\ UNCHANGED <<dev, config, data, release_work, since_last, conc>>
     ELSE IF ev.code # INPUT_REL_X /\ ev.code # INPUT_REL_Y
     THEN /\ event' = ev
          /\ UNCHANGED <<dev, config, data, release_work, since_last, conc>>
     ELSE LET r == HandleLocked(data, config, ev)
          IN  /\ data' = r.data
              /\ event' = r.event
              /\ release_work' = IF config.sticky
                                 THEN k_work_reschedule(release_work,
                                                        config.release_after_ms)
                                 ELSE release_work
              /\ since_last' = 0
              /\ UNCHANGED <<dev, config, conc>>

HandleEvent == \E ev \in Events : axis_constrain_handle_event(ev)

(***************************************************************************)
(* Time and the work queue.                                                *)
(***************************************************************************)
\* one millisecond passes; a timeout that is due expires before time goes on
Tick ==
  /\ ~(release_work.delayed /\ release_work.left = 0)
  /\ release_work' = IF release_work.delayed
                     THEN [release_work EXCEPT !.left = @ - 1]
                     ELSE release_work
  /\ since_last' = IF since_last < Long THEN since_last + 1 ELSE since_last
  /\ UNCHANGED <<dev, ret, config, data, event, value_in, conc>>

\* the timeout of release_work expires: the work item is submitted to the queue
Expire ==
  /\ release_work.delayed /\ release_work.left = 0
  /\ release_work' = [release_work EXCEPT !.delayed = FALSE, !.queued = TRUE]
  /\ UNCHANGED <<dev, ret, config, data, event, value_in, since_last, conc>>

\* the work queue runs release_work_handler
release_work_handler ==
  /\ release_work.queued
  /\ release_work' = [release_work EXCEPT !.queued = FALSE]
  /\ data' = reset_state_locked(data)
  /\ UNCHANGED <<dev, ret, config, event, value_in, since_last, conc>>

Next ==
  \/ HandleEvent
  \/ Tick
  \/ Expire
  \/ release_work_handler

Spec == Init /\ [][Next]_vars

(***************************************************************************)
(* Construction: AC_INST(n) checks the devicetree properties when the      *)
(* firmware is built; only if they pass is the device defined, and its     *)
(* init function run at boot.                                              *)
(***************************************************************************)
\* the devicetree properties an instance can be given, admissible or not
Props == [threshold : {-1, 0} \cup (1..MaxThreshold),
          sticky : BOOLEAN,
          release_after_ms : {-1, 0} \cup (1..MaxReleaseMs)]

\* before the build: the properties are chosen, nothing of the driver exists;
\* axis_constrain_data_##n is static storage, zeroed
BuildInit ==
  /\ config \in Props
  /\ dev = "unbuilt"
  /\ ret = <<>>
  /\ data = [locked_axis |-> AXIS_NONE, accum_x |-> 0, accum_y |-> 0,
             abs_accum_x |-> 0, abs_accum_y |-> 0]
  /\ release_work = [delayed |-> FALSE, left |-> 0, queued |-> FALSE]
  /\ event = NoEvent
  /\ value_in = 0
  /\ since_last = Long
  /\ lock = "free"
  /\ pc = [p \in Contexts |-> "idle"]
  /\ cur = [h \in Handlers |-> NoEvent]
  /\ shadow = data
  /\ expect = [h \in Handlers |-> NoEvent]

\* faulty variant of AC_INST: release_after_ms is not checked
AC_INST_no_release_check ==
  /\ dev = "unbuilt"
  /\ IF config.threshold > 0
     THEN /\ dev' = "ready"
          /\ data' = reset_state_locked(data)
          /\ release_work' = k_work_init_delayable
          /\ ret' = <<0>>
          /\ shadow' = reset_state_locked(data)
     ELSE /\ dev' = "build_error"
          /\ UNCHANGED <<data, release_work, ret, shadow>>
  /\ UNCHANGED <<config, event, value_in, since_last, lock, pc, cur, expect>>

\* AC_INST(n): the two BUILD_ASSERTs, then DEVICE_DT_INST_DEFINE, whose init
\* function axis_constrain_init runs at boot
AC_INST ==
  /\ dev = "unbuilt"
  /\ IF /\ config.threshold > 0
        /\ ~config.sticky \/ config.release_after_ms > 0
     THEN /\ dev' = "ready"
          /\ data' = reset_state_locked(data)
          /\ release_work' = k_work_init_delayable
          /\ ret' = <<0>>
          /\ shadow' = reset_state_locked(data)
     ELSE /\ dev' = "build_error"
          /\ UNCHANGED <<data, release_work, ret, shadow>>
  /\ UNCHANGED <<config, event, value_in, since_last, lock, pc, cur, expect>>

\* the driver runs only once its device is ready
BuildNext ==
  \/ AC_INST
  \/ dev = "ready" /\ HandleEvent
  \/ dev = "ready" /\ Tick
  \/ dev = "ready" /\ Expire
  \/ dev = "ready" /\ release_work_handler

BuildSpec == BuildInit /\ [][BuildNext]_vars

(***************************************************************************)
(* The handler and the release callback step by step, run by concurrent    *)
(* execution contexts that meet at the spin lock.                          *)
(***************************************************************************)
\* faulty variant of k_spin_lock: the lock is taken without waiting for it
k_spin_lock_no_wait(p) == lock' = p

\* k_spin_lock(&data->lock): taken only when free
k_spin_lock(p) == lock = "free" /\ lock' = p

\* k_spin_unlock(&data->lock, key)
k_spin_unlock(p) == lock' = "free"

\* lines 200-208: the early returns; a qualifying event goes on to the lock
HandlerEnter(h, ev) ==
  /\ pc[h] = "idle"
  /\ IF ev.type # INPUT_EV_REL
     THEN ret' = <<0>> /\ UNCHANGED <<pc, cur>>
     ELSE IF ev.code # INPUT_REL_X /\ ev.code # INPUT_REL_Y
     THEN ret' = <<0>> /\ UNCHANGED <<pc, cur>>
     ELSE /\ pc' = [pc EXCEPT ![h] = "lock"]
          /\ cur' = [cur EXCEPT ![h] = ev]
          /\ UNCHANGED ret
  /\ UNCHANGED <<dev, config, data, release_work, event, value_in, since_last,
                 lock, shadow, expect>>

\* line 210
HandlerLock(h) ==
  /\ pc[h] = "lock"
  /\ k_spin_lock(h)
  /\ pc' = [pc EXCEPT ![h] = "update"]
  /\ shadow' = HandleLocked(shadow, config, cur[h]).data
  /\ expect' = [expect EXCEPT ![h] = HandleLocked(shadow, config, cur[h]).event]
  /\ UNCHANGED <<dev, ret, config, data, release_work, event, value_in, since_last, cur>>

\* line 212
HandlerUpdate(h) ==
  /\ pc[h] = "update"
  /\ data' = update_accum(data, cur[h].code = INPUT_REL_X, cur[h].value)
  /\ pc' = [pc EXCEPT ![h] = "policy"]
  /\ UNCHANGED <<dev, ret, config, release_work, event, value_in, since_last,
                 lock, cur, shadow, expect>>

\* lines 214-219
HandlerPolicy(h) ==
  /\ pc[h] = "policy"
  /\ LET is_x == (cur[h].code = INPUT_REL_X)
         r == IF config.sticky
              THEN handle_sticky_mode(data, config, cur[h], is_x)
              ELSE handle_non_sticky_mode(data, config, cur[h], is_x)
     IN  /\ data' = r.data
         /\ cur' = [cur EXCEPT ![h] = r.event]
  /\ release_work' = IF config.sticky
                     THEN k_work_reschedule(release_work, config.release_after_ms)
                     ELSE release_work
  /\ since_last' = 0
  /\ pc' = [pc EXCEPT ![h] = "unlock"]
  /\ UNCHANGED <<dev, ret, config, event, value_in, lock, shadow, expect>>

\* lines 221-223
HandlerUnlock(h) ==
  /\ pc[h] = "unlock"
  /\ k_spin_unlock(h)
  /\ pc' = [pc EXCEPT ![h] = "idle"]
  /\ cur' = [cur EXCEPT ![h] = NoEvent]
  /\ expect' = [expect EXCEPT ![h] = NoEvent]
  /\ ret' = <<0>>
  /\ UNCHANGED <<dev, config, data, release_work, event, value_in, since_last, shadow>>

\* the work queue thread takes release_work off the queue and calls its handler
WorkRun ==
  /\ pc[WorkQueue] = "idle"
  /\ release_work.queued
  /\ release_work' = [release_work EXCEPT !.queued = FALSE]
  /\ pc' = [pc EXCEPT ![WorkQueue] = "lock"]
  /\ UNCHANGED <<dev, ret, config, data, event, value_in, since_last,
                 lock, cur, shadow, expect>>

\* line 100
ReleaseLock ==
  /\ pc[WorkQueue] = "lock"
  /\ k_spin_lock(WorkQueue)
  /\ pc' = [pc EXCEPT ![WorkQueue] = "reset"]
  /\ shadow' = reset_state_locked(shadow)
  /\ UNCHANGED <<dev, ret, config, data, release_work, event, value_in, since_last,
                 cur, expect>>

\* line 105
ReleaseReset ==
  /\ pc[WorkQueue] = "reset"
  /\ data' = reset_state_locked(data)
  /\ pc' = [pc EXCEPT ![WorkQueue] = "unlock"]
  /\ UNCHANGED <<dev, ret, config, release_work, event, value_in, since_last,
                 lock, cur, shadow, expect>>

\* line 107
ReleaseUnlock ==
  /\ pc[WorkQueue] = "unlock"
  /\ k_spin_unlock(WorkQueue)
  /\ pc' = [pc EXCEPT ![WorkQueue] = "idle"]
  /\ UNCHANGED <<dev, ret, config, data, release_work, event, value_in, since_last,
                 cur, shadow, expect>>

\* the events the concurrent callers hand over: irrelevant ones, and motion
\* on either axis in both directions, small and saturating
ConcEvents == {ev \in Events : ev.value \in {-1, 1, INT32_MAX}}

HandlerStep ==
  \E h \in Handlers :
    \/ \E ev \in ConcEvents : HandlerEnter(h, ev)
    \/ HandlerLock(h)
    \/ HandlerUpdate(h)
    \/ HandlerPolicy(h)
    \/ HandlerUnlock(h)

ConcNext ==
  \/ HandlerStep
  \/ Tick
  \/ Expire
  \/ WorkRun
  \/ ReleaseLock
  \/ ReleaseReset
  \/ ReleaseUnlock

\* the length of the release window plays no part in the locking: in sticky
\* mode the concurrent contexts are explored with the shortest one
ConcInit == Init /\ (config.sticky => config.release_after_ms = 1)

ConcSpec == ConcInit /\ [][ConcNext]_vars

(***************************************************************************)
(* The same program with the fairness its scheduling gives: time passes,   *)
(* a due timeout expires, and the work queue runs a queued item.           *)
(***************************************************************************)
LiveSpec ==
  /\ Spec
  /\ WF_vars(Tick)
  /\ WF_vars(Expire)
  /\ WF_vars(release_work_handler)

(***************************************************************************)
(* The arbiter on its own: it is applied, as at line 127, to every pair of *)
(* absolute accumulators and every threshold an int can hold.              *)
(***************************************************************************)
ArbiterCall(ax, ay, thr) ==
  /\ config' = [config EXCEPT !.threshold = thr]
  /\ data' = LET d == [locked_axis |-> AXIS_NONE,
                       accum_x |-> ax, accum_y |-> ay,
                       abs_accum_x |-> ax, abs_accum_y |-> ay]
             IN  [d EXCEPT !.locked_axis = determine_dominant_axis(d, thr)]
  /\ UNCHANGED <<dev, ret, release_work, event, value_in, since_last, conc>>

ArbiterNext ==
  \E ax \in 0..INT32_MAX, ay \in 0..INT32_MAX, thr \in 1..INT32_MAX :
    ArbiterCall(ax, ay, thr)

ArbiterSpec == Init /\ [][ArbiterNext]_vars

(***************************************************************************)
(* Properties.                                                             *)
(***************************************************************************)
\* the event handed over in a step of the handler, as it came in
Handed == [event' EXCEPT !.value = value_in']

\* the step is the handling of a qualifying event
HandledQualifying ==
  Handed \in QualifyingEvents /\ axis_constrain_handle_event(Handed)

\* the step is the handling of an irrelevant event
HandledIrrelevant ==
  Handed \in IrrelevantEvents /\ axis_constrain_handle_event(Handed)

\* the event is on the axis that `axis' names
OnAxis(ev, axis) ==
  \/ axis = AXIS_X /\ ev.code = INPUT_REL_X
  \/ axis = AXIS_Y /\ ev.code = INPUT_REL_Y

\* the accumulators after update_accum for ev
Updated(ev) == update_accum(data, ev.code = INPUT_REL_X, ev.value)

\* the state reset_state_locked leaves
IsReset(d) ==
  /\ d.locked_axis = AXIS_NONE
  /\ d.accum_x = 0 /\ d.accum_y = 0
  /\ d.abs_accum_x = 0 /\ d.abs_accum_y = 0

\* the last event handed over was a qualifying one
LastQualifying == event.type = INPUT_EV_REL /\ event.code \in {INPUT_REL_X, INPUT_REL_Y}

\* C1: sticky mode: while locked_axis is X or Y (from the lock to the next
\* release), a qualifying event on the other axis leaves the handler with
\* value 0 and one on the locked axis leaves it with its value unchanged,
\* whatever the accumulators are.
C1_LockedSuppression ==
  [][(HandledQualifying /\ config.sticky /\ data.locked_axis # AXIS_NONE)
     => /\ OnAxis(Handed, data.locked_axis) => event'.value = Handed.value
        /\ ~OnAxis(Handed, data.locked_axis) => event'.value = 0]_vars

\* C1 witness: locked to X, a non-zero Y event has just been suppressed although
\* the Y accumulator has reached the threshold and exceeds the X accumulator.
C1_Witness ==
  /\ config.sticky
  /\ data.locked_axis = AXIS_X
  /\ event.type = INPUT_EV_REL /\ event.code = INPUT_REL_Y
  /\ value_in # 0 /\ event.value = 0
  /\ data.abs_accum_y >= config.threshold
  /\ data.abs_accum_y > data.abs_accum_x

\* C2: sticky mode: an event handled while unlocked for which the arbiter,
\* evaluated after accumulation, returns AXIS_NONE leaves with value 0; and no
\* qualifying event leaves with a non-zero value while locked_axis is still
\* AXIS_NONE after it.
C2_UnlockedSuppression ==
  [][(HandledQualifying /\ config.sticky)
     => /\ (data.locked_axis = AXIS_NONE
             /\ determine_dominant_axis(Updated(Handed), config.threshold) = AXIS_NONE)
           => (event'.value = 0 /\ data'.locked_axis = AXIS_NONE)
        /\ data'.locked_axis = AXIS_NONE => event'.value = 0]_vars

\* C2 witness: still unlocked after a non-zero event that was suppressed, with
\* its movement accumulated below the threshold.
C2_Witness ==
  /\ config.sticky
  /\ data.locked_axis = AXIS_NONE
  /\ LastQualifying
  /\ value_in # 0 /\ event.value = 0
  /\ data.abs_accum_x + data.abs_accum_y > 0
  /\ data.abs_accum_x < config.threshold /\ data.abs_accum_y < config.threshold

\* C3: whenever release_work_handler runs, the state right after it is
\* locked_axis = AXIS_NONE with all four accumulators 0, whatever it was
\* before; and from that state a qualifying event that reaches the threshold
\* locks its own axis, X or Y.
C3_ReleaseResets ==
  /\ [][release_work_handler => IsReset(data')]_vars
  /\ [][(HandledQualifying /\ config.sticky /\ IsReset(data)
          /\ safe_abs(safe_accum_add(0, Handed.value)) >= config.threshold)
        => data'.locked_axis = (IF Handed.code = INPUT_REL_X THEN AXIS_X ELSE AXIS_Y)]_vars

\* C3 witness: the state is reset although the last event passed with a non-zero
\* value on X, i.e. X was locked and a release has run since.
C3_Witness ==
  /\ config.sticky
  /\ IsReset(data)
  /\ event.type = INPUT_EV_REL /\ event.code = INPUT_REL_X
  /\ event.value # 0
  /\ ~release_work.queued

\* C4: sticky mode: every qualifying event, in whatever state and with whatever
\* outcome, leaves the release timeout pending with release_after_ms to go; the
\* timeout expires only when exactly release_after_ms have passed since the
\* last qualifying event (so never while events arrive less than that apart);
\* and once qualifying events stop, the state eventually stays reset.
C4_ReleaseWindow ==
  /\ [][(HandledQualifying /\ config.sticky)
        => /\ release_work'.delayed
           /\ release_work'.left = config.release_after_ms]_vars
  /\ [][Expire => since_last = config.release_after_ms]_vars
  /\ ([]<><<HandledQualifying>>_vars) \/ <>[](config.sticky => IsReset(data))

\* C4 witness: the timeout has expired release_after_ms after a suppressed
\* non-zero event, and the release has reset the state.
C4_Witness ==
  /\ config.sticky
  /\ config.release_after_ms > 1
  /\ LastQualifying /\ value_in # 0 /\ event.value = 0
  /\ IsReset(data)
  /\ since_last = config.release_after_ms
  /\ ~release_work.delayed /\ ~release_work.queued

\* C5 as claimed: release_work_handler never resets the state while the window
\* of a more recent qualifying event is still running, i.e. a release never
\* runs less than release_after_ms after the last qualifying event.
C5_NoStaleRelease ==
  [][release_work_handler => since_last >= config.release_after_ms]_vars

\* C5 as amended: rescheduling replaces a timeout that has not expired yet, so
\* the pending timeout is always the one of the last qualifying event; a work
\* item already queued is neither removed nor added by handling an event.
C5_PendingTimeoutIsLatest ==
  /\ [](release_work.delayed
        => release_work.left = config.release_after_ms - since_last)
  /\ [][HandledQualifying
        => release_work'.queued = release_work.queued]_vars

\* C5 witness: the last qualifying event passed with a non-zero value (an axis
\* was locked), and a release queued before it has reset the state while that
\* event's timeout is still pending.
C5_Witness ==
  /\ config.sticky
  /\ LastQualifying /\ event.value # 0
  /\ IsReset(data)
  /\ release_work.delayed /\ ~release_work.queued
  /\ since_last < config.release_after_ms

\* the accumulator of the axis `axis' in d, and its absolute counterpart
AccumOf(d, axis) == IF axis = AXIS_X THEN d.accum_x ELSE d.accum_y
AbsAccumOf(d, axis) == IF axis = AXIS_X THEN d.abs_accum_x ELSE d.abs_accum_y
AxisOf(ev) == IF ev.code = INPUT_REL_X THEN AXIS_X ELSE AXIS_Y
Other(axis) == IF axis = AXIS_X THEN AXIS_Y ELSE AXIS_X

\* the mathematical absolute value and saturation
Magnitude(v) == IF v < 0 THEN 0 - v ELSE v
Saturate(v) == IF v > MAX_ACCUM THEN MAX_ACCUM
               ELSE IF v < 0 - MAX_ACCUM THEN 0 - MAX_ACCUM ELSE v

\* C7: non-sticky mode: right after the handler accepts an event on the
\* dominant axis (the arbiter, after accumulation, returns the event's axis),
\* the other axis's signed and absolute accumulators are 0 and the dominant
\* axis's accumulator has magnitude <= threshold: clamped to exactly threshold
\* with its sign kept when it exceeded threshold, untouched otherwise.
C7_DecayOnAccept ==
  [][(HandledQualifying /\ ~config.sticky
        /\ determine_dominant_axis(Updated(Handed), config.threshold) = AxisOf(Handed))
       => LET dom == AxisOf(Handed)
              u == Updated(Handed)
          IN  /\ event'.value = Handed.value
              /\ AccumOf(data', Other(dom)) = 0
              /\ AbsAccumOf(data', Other(dom)) = 0
              /\ Magnitude(AccumOf(data', dom)) <= config.threshold
              /\ AbsAccumOf(data', dom) = Magnitude(AccumOf(data', dom))
              /\ Magnitude(AccumOf(u, dom)) > config.threshold
                 => /\ Magnitude(AccumOf(data', dom)) = config.threshold
                    /\ (AccumOf(data', dom) > 0) = (AccumOf(u, dom) > 0)
              /\ Magnitude(AccumOf(u, dom)) <= config.threshold
                 => AccumOf(data', dom) = AccumOf(u, dom)]_vars

\* C7 witness: a negative X event larger than the threshold has passed and the X
\* accumulator has been clamped to -threshold, below the saturation bound.
C7_Witness ==
  /\ ~config.sticky
  /\ event.type = INPUT_EV_REL /\ event.code = INPUT_REL_X
  /\ event.value = INT32_MIN
  /\ config.threshold < MAX_ACCUM
  /\ data.accum_x = 0 - config.threshold
  /\ data.abs_accum_x = config.threshold
  /\ data.accum_y = 0 /\ data.abs_accum_y = 0

\* C8: in every reachable state each accumulator lies in -MAX_ACCUM..MAX_ACCUM
\* and its absolute counterpart is its magnitude; and from every reachable state
\* update_accum with any delta, INT32_MIN and INT32_MAX included, yields the
\* saturated mathematical sum (the sum fits the wide intermediate, nothing
\* wraps) and the magnitude of that.
C8_AccumulatorsSaturate ==
  /\ \A axis \in {AXIS_X, AXIS_Y} :
       /\ AccumOf(data, axis) \in (0 - MAX_ACCUM)..MAX_ACCUM
       /\ AbsAccumOf(data, axis) = Magnitude(AccumOf(data, axis))
  /\ \A ev \in QualifyingEvents :
       LET axis == AxisOf(ev)
           sum == AccumOf(data, axis) + ev.value
           u == Updated(ev)
       IN  /\ sum \in (0 - 2^(2 * IntBits - 1))..(2^(2 * IntBits - 1) - 1)
           /\ AccumOf(u, axis) = Saturate(sum)
           /\ AbsAccumOf(u, axis) = Magnitude(Saturate(sum))
           /\ AccumOf(u, Other(axis)) = AccumOf(data, Other(axis))
           /\ AbsAccumOf(u, Other(axis)) = AbsAccumOf(data, Other(axis))

\* C8 witness: the most negative delta has been applied to a positive
\* accumulator, which now sits at -MAX_ACCUM with absolute value MAX_ACCUM,
\* while the other accumulator sits at +MAX_ACCUM.
C8_Witness ==
  /\ event.type = INPUT_EV_REL /\ event.code = INPUT_REL_X
  /\ value_in = INT32_MIN
  /\ data.accum_x = 0 - MAX_ACCUM /\ data.abs_accum_x = MAX_ACCUM
  /\ data.accum_y = MAX_ACCUM /\ data.abs_accum_y = MAX_ACCUM

\* C9: for all absolute accumulators and every threshold > 0 the arbiter
\* returns AXIS_X when abs_accum_x >= threshold and abs_accum_x >= abs_accum_y
\* (a tie at or above the threshold goes to X), AXIS_Y when
\* abs_accum_y >= threshold and abs_accum_y > abs_accum_x, and AXIS_NONE exactly
\* when both are below the threshold.
C9_Arbiter ==
  LET ax == data.abs_accum_x
      ay == data.abs_accum_y
      thr == config.threshold
      r == data.locked_axis
  IN  /\ (ax >= thr /\ ax >= ay) => r = AXIS_X
      /\ (ay >= thr /\ ay > ax) => r = AXIS_Y
      /\ (r = AXIS_NONE) <=> (ax < thr /\ ay < thr)
      /\ r \in axis_state

\* C9 witness: the arbiter was applied to equal absolute accumulators above the
\* threshold and returned AXIS_X.
C9_Witness ==
  /\ data.abs_accum_x = data.abs_accum_y
  /\ data.abs_accum_x > config.threshold
  /\ data.locked_axis = AXIS_X

\* C10: an event that is not relative motion, or whose code is neither X nor
\* Y, leaves the handler as it came and changes neither locked_axis, nor an
\* accumulator, nor the release work item (no timeout is armed or rearmed), in
\* both modes and from every state.
C10_IrrelevantFrame ==
  [][HandledIrrelevant
     => /\ event' = Handed
        /\ event'.value = value_in'
        /\ data' = data
        /\ release_work' = release_work
        /\ config' = config]_vars

\* C10 witness: a non-zero irrelevant event has been handled while an axis is
\* locked and the release timeout is part-way through its window.
C10_Witness ==
  /\ config.sticky
  /\ event \in IrrelevantEvents
  /\ event.value # 0 /\ event.value = value_in
  /\ data.locked_axis # AXIS_NONE
  /\ release_work.delayed
  /\ release_work.left > 0 /\ release_work.left < config.release_after_ms

\* the contexts inside the exclusive region
InRegion == {p \in Contexts : pc[p] \in {"update", "policy", "reset", "unlock"}}

\* C6: at most one context is inside the region between k_spin_lock and
\* k_spin_unlock; whenever the lock is free, data is what the whole event
\* handlings and whole releases leave when run one after another in the order
\* in which they took the lock (so no partly reset or partly updated state is
\* visible outside the region); and each event leaves the region as its whole
\* handling in that order leaves it.
C6_Serialized ==
  /\ Cardinality(InRegion) <= 1
  /\ InRegion = (IF lock = "free" THEN {} ELSE {lock})
  /\ lock = "free" => data = shadow
  /\ \A h \in Handlers : pc[h] = "unlock" => (data = shadow /\ cur[h] = expect[h])
  /\ pc[WorkQueue] = "unlock" => (data = shadow /\ IsReset(data))

\* C6 witness: a handler in sticky mode stands between its accumulator update
\* and its decision, about to lock an axis, while the release callback and a
\* second handler both wait at the lock.
C6_Witness ==
  /\ config.sticky
  /\ pc[WorkQueue] = "lock"
  /\ \E h \in Handlers :
       /\ pc[h] = "policy"
       /\ \E g \in Handlers \ {h} : pc[g] = "lock"
  /\ data.locked_axis = AXIS_NONE
  /\ shadow.locked_axis # AXIS_NONE

\* C11: the handler returns the success status 0 for every event, qualifying
\* or not, from every state and in both modes, and the event it leaves is the
\* event it was given or that event with its value forced to 0 (type and code
\* are never touched, the value never becomes anything else).
C11_SuccessAndZeroOnly ==
  [][\A ev \in Events :
       (ev.value = value_in' /\ axis_constrain_handle_event(ev))
       => /\ ret' = <<0>>
          /\ event' = ev \/ event' = [ev EXCEPT !.value = 0]
          /\ event'.value \in {value_in', 0}]_vars

\* C11 witness: locked to Y in sticky mode, the handler has returned success
\* after forcing the value of the largest negative X event to 0.
C11_Witness ==
  /\ ret = <<0>>
  /\ config.sticky
  /\ data.locked_axis = AXIS_Y
  /\ event.type = INPUT_EV_REL /\ event.code = INPUT_REL_X
  /\ value_in = INT32_MIN /\ event.value = 0

\* the step is the construction of the instance
Constructed == dev = "unbuilt" /\ dev' # "unbuilt"

\* C12: construction with threshold <= 0, or with sticky and
\* release_after_ms <= 0, ends in a build error: no device is defined, no
\* driver function returns, and nothing of the driver ever runs; construction
\* with admissible properties yields a ready device whose init returned
\* success and left locked_axis = AXIS_NONE, all accumulators 0 and no release
\* pending or queued.
C12_Construction ==
  /\ [][Constructed
        => IF config.threshold <= 0
              \/ (config.sticky /\ config.release_after_ms <= 0)
           THEN dev' = "build_error" /\ ret' = <<>>
           ELSE /\ dev' = "ready" /\ ret' = <<0>>
                /\ config' = config
                /\ IsReset(data')
                /\ ~release_work'.delayed /\ ~release_work'.queued]_vars
  /\ [][dev # "build_error"]_vars
  /\ [](dev = "ready"
        => /\ config.threshold > 0
           /\ config.sticky => config.release_after_ms > 0)

\* C12 witness: a sticky instance with a positive threshold but
\* release_after_ms = 0 has been rejected by the build.
C12_Witness ==
  /\ dev = "build_error"
  /\ config.sticky
  /\ config.threshold > 0
  /\ config.release_after_ms = 0
  /\ ret = <<>>

\* C13: non-sticky mode: in every reachable state no release timeout is
\* pending, no release is queued and locked_axis is AXIS_NONE; no step arms
\* the release and release_work_handler never runs.
C13_NoSchedulerNoLock ==
  /\ [](~config.sticky
        => /\ ~release_work.delayed
           /\ ~release_work.queued
           /\ data.locked_axis = AXIS_NONE)
  /\ [][~config.sticky
        => /\ release_work' = release_work
           /\ ~release_work_handler]_vars

\* C13 witness: non-sticky mode, an X event has passed with a non-zero value
\* on the dominant axis and more than release_after_ms have gone by since;
\* nothing is locked and nothing was released.
C13_Witness ==
  /\ ~config.sticky
  /\ event.type = INPUT_EV_REL /\ event.code = INPUT_REL_X
  /\ event.value # 0
  /\ since_last = Long
  /\ data.locked_axis = AXIS_NONE
  /\ data.abs_accum_x = config.threshold
  /\ release_work = k_work_init_delayable

\* the arbiter's answer for ev, evaluated after ev's delta is accumulated
Dominant(ev) == determine_dominant_axis(Updated(ev), config.threshold)

\* C14: non-sticky mode: after every accepted X event the X accumulator has
\* magnitude exactly threshold, whatever the deltas were; and while X is held
\* at the threshold, a Y event after whose accumulation abs_accum_y >=
\* threshold and abs_accum_y > abs_accum_x passes unchanged and zeroes the X
\* accumulator, and a Y event short of that is suppressed and leaves X alone.
C14_ClampAndSwitch ==
  [][(HandledQualifying /\ ~config.sticky)
       => LET u == Updated(Handed)
              held == data.abs_accum_x = config.threshold
              over == /\ u.abs_accum_y >= config.threshold
                      /\ u.abs_accum_y > u.abs_accum_x
          IN  /\ (Handed.code = INPUT_REL_X /\ Dominant(Handed) = AXIS_X)
                 => /\ event'.value = Handed.value
                    /\ data'.abs_accum_x = config.threshold
                    /\ Magnitude(data'.accum_x) = config.threshold
              /\ (Handed.code = INPUT_REL_Y /\ held /\ over)
                 => /\ event'.value = Handed.value
                    /\ data'.accum_x = 0 /\ data'.abs_accum_x = 0
              /\ (Handed.code = INPUT_REL_Y /\ held /\ ~over)
                 => /\ event'.value = 0
                    /\ data'.accum_x = data.accum_x
                    /\ data'.abs_accum_x = data.abs_accum_x]_vars

\* C14 witness: X is held at the threshold after accepted movement, and Y has
\* accumulated up to a tie with it: the last Y event, not yet above X, was
\* suppressed, and the next one can switch.
C14_Witness ==
  /\ ~config.sticky
  /\ config.threshold < MAX_ACCUM
  /\ data.abs_accum_x = config.threshold
  /\ data.abs_accum_y = config.threshold
  /\ event.type = INPUT_EV_REL /\ event.code = INPUT_REL_Y
  /\ value_in # 0 /\ event.value = 0

\* C15: non-sticky mode: when the arbiter, after accumulation, returns
\* AXIS_NONE or the other axis, the event leaves with value 0 and the state
\* after the handler is the state before it with the delta accumulated
\* (saturating) into the event's own axis: the other axis's accumulators,
\* locked_axis and the release work item are unchanged, nothing is zeroed or
\* clamped to the threshold.
C15_SuppressedFrame ==
  [][(HandledQualifying /\ ~config.sticky /\ Dominant(Handed) # AxisOf(Handed))
       => LET own == AxisOf(Handed)
          IN  /\ event'.value = 0
              /\ data' = Updated(Handed)
              /\ AccumOf(data', own) = Saturate(AccumOf(data, own) + Handed.value)
              /\ AbsAccumOf(data', own) = Magnitude(AccumOf(data', own))
              /\ AccumOf(data', Other(own)) = AccumOf(data, Other(own))
              /\ AbsAccumOf(data', Other(own)) = AbsAccumOf(data, Other(own))
              /\ data'.locked_axis = data.locked_axis
              /\ release_work' = release_work]_vars

\* C15 witness: with Y dominant, a non-zero X event has been suppressed and its
\* movement sits in the X accumulator, below that of Y, which is untouched.
C15_Witness ==
  /\ ~config.sticky
  /\ event.type = INPUT_EV_REL /\ event.code = INPUT_REL_X
  /\ value_in # 0 /\ event.value = 0
  /\ data.abs_accum_y = config.threshold
  /\ data.abs_accum_x > 0
  /\ data.abs_accum_x < data.abs_accum_y

\* C16: non-sticky mode: a qualifying event leaves with its value unchanged
\* when the arbiter, after accumulation, returns the event's own axis, and
\* with value 0 in every other case; in particular, from the reset state an X
\* delta v below the threshold is suppressed, and a second X delta v that
\* brings the accumulator to the threshold passes as v.
C16_PassIffOwnAxisDominant ==
  /\ [][(HandledQualifying /\ ~config.sticky)
        => event'.value = IF Dominant(Handed) = AxisOf(Handed)
                          THEN Handed.value ELSE 0]_vars
  /\ [][(HandledQualifying /\ ~config.sticky /\ Handed.code = INPUT_REL_X
          /\ data.accum_y = 0 /\ data.abs_accum_y = 0)
        => LET v == Handed.value
           IN  /\ (data.accum_x = 0 /\ Magnitude(v) < config.threshold)
                  => event'.value = 0
               /\ (data.accum_x = v /\ Magnitude(v) < config.threshold
                    /\ Magnitude(Saturate(v + v)) >= config.threshold)
                  => event'.value = v]_vars

\* C16 witness: with a threshold of 2, an X event of +1 has passed as 1 once
\* the X accumulator reached 2, with nothing on Y.
C16_Witness ==
  /\ ~config.sticky
  /\ config.threshold = 2
  /\ event.type = INPUT_EV_REL /\ event.code = INPUT_REL_X
  /\ value_in = 1 /\ event.value = 1
  /\ data.accum_x = 2
  /\ data.accum_y = 0

\* C17: sticky mode: locked_axis changes only from AXIS_NONE to X or Y in a
\* step of the event handler, and from X or Y to AXIS_NONE in a step of
\* release_work_handler; the handler never changes a locked_axis that is X or
\* Y, whatever the accumulators have become.
C17_LockTransitions ==
  [][config.sticky
     => /\ data'.locked_axis # data.locked_axis
           => \/ data.locked_axis = AXIS_NONE /\ HandledQualifying
              \/ data'.locked_axis = AXIS_NONE /\ release_work_handler
        /\ ((HandledQualifying \/ HandledIrrelevant)
             /\ data.locked_axis # AXIS_NONE)
           => data'.locked_axis = data.locked_axis
        /\ release_work_handler => data'.locked_axis = AXIS_NONE]_vars

\* C17 witness: still locked to X after an X event that passed and brought the
\* X accumulator back to 0, while the Y accumulator has reached the threshold.
C17_Witness ==
  /\ config.sticky
  /\ data.locked_axis = AXIS_X
  /\ event.type = INPUT_EV_REL /\ event.code = INPUT_REL_X
  /\ value_in # 0 /\ event.value = value_in
  /\ data.accum_x = 0
  /\ data.abs_accum_y >= config.threshold

\* C18: sticky mode: whenever the spin lock is free, locked_axis = AXIS_NONE
\* implies that both absolute accumulators are strictly below the threshold.
C18_UnlockedBelowThreshold ==
  (config.sticky /\ lock = "free" /\ data.locked_axis = AXIS_NONE)
    => /\ data.abs_accum_x < config.threshold
       /\ data.abs_accum_y < config.threshold

\* C18 witness: the lock is free, nothing is locked, and both axes have
\* accumulated movement just below the threshold while a handler waits.
C18_Witness ==
  /\ config.sticky
  /\ lock = "free"
  /\ data.locked_axis = AXIS_NONE
  /\ data.abs_accum_x = config.threshold - 1
  /\ data.abs_accum_y = config.threshold - 1
  /\ config.threshold > 1
  /\ \E h \in Handlers : pc[h] = "lock"

\* C19: sticky mode: the event whose handling takes locked_axis from AXIS_NONE
\* to X or Y is on that axis and leaves with its value unchanged; at that
\* moment the other axis is below the threshold, so the two absolute
\* accumulators are not tied.
C19_LockByOwnAxis ==
  [][(HandledQualifying /\ config.sticky
        /\ data.locked_axis = AXIS_NONE /\ data'.locked_axis # AXIS_NONE)
       => LET u == Updated(Handed)
          IN  /\ data'.locked_axis = AxisOf(Handed)
              /\ event'.value = Handed.value
              /\ AbsAccumOf(u, Other(AxisOf(Handed))) < config.threshold
              /\ u.abs_accum_x # u.abs_accum_y]_vars

\* C19 witness: locked to Y, with the release timeout just rearmed by a Y event
\* that passed, while X had accumulated to just below the threshold.
C19_Witness ==
  /\ config.sticky
  /\ data.locked_axis = AXIS_Y
  /\ event.type = INPUT_EV_REL /\ event.code = INPUT_REL_Y
  /\ value_in # 0 /\ event.value = value_in
  /\ data.abs_accum_y = config.threshold
  /\ data.abs_accum_x = config.threshold - 1
  /\ data.abs_accum_x > 0
  /\ since_last = 0

\* C20: non-sticky mode: whenever the spin lock is free, and when a handler
\* has applied its policy, both absolute accumulators are <= threshold.
C20_NonStickyBounded ==
  (~config.sticky /\ (lock = "free" \/ \E h \in Handlers : pc[h] = "unlock"))
    => /\ data.abs_accum_x <= config.threshold
       /\ data.abs_accum_y <= config.threshold

\* C20 witness: inside the handling of one event, between update_accum and the
\* policy, the X accumulator exceeds the threshold.
C20_Witness ==
  /\ ~config.sticky
  /\ \E h \in Handlers : pc[h] = "policy" /\ cur[h].code = INPUT_REL_X
  /\ data.abs_accum_x > config.threshold
  /\ data.abs_accum_y = config.threshold

====
